---- MODULE Spec2Model ----
(***************************************************************************)
(* A model of df_to_ppt.py: the value formatter (_do_formatting and        *)
(* round_to_n) and the two operations that insert a shape into a slide     *)
(* (df_to_table and add_title).                                            *)
(*                                                                         *)
(* Text is modelled as a sequence of one-character strings, so that the    *)
(* conversions (str, format) are computed character by character.          *)
(* Python floats are modelled by the values that are a whole number of     *)
(* quarters, held as an integer count of hundredths: they are exact in     *)
(* binary, so that every rounding tie below is a real tie.                 *)
(***************************************************************************)
EXTENDS Integers, Sequences, FiniteSets, TLC

VARIABLES
    fcall,   \* the last call of _do_formatting or round_to_n and its outcome
    slide,   \* slide.shapes: the shapes of the slide, in insertion order
    call     \* the last call of df_to_table or add_title and its outcome

vars == <<fcall, slide, call>>

(***************************************************************************)
(* Bounds of the model.                                                    *)
(***************************************************************************)
\* integers -MaxSmall..MaxSmall are formatted, beside the chosen large ones
MaxSmall == 12
\* round_to_n is applied to every integer of -MaxRound..MaxRound
MaxRound == 1300
\* and asked for 1..MaxSig significant digits
MaxSig == 5
\* floats: every whole number of quarters in -MaxQuarters..MaxQuarters
MaxQuarters == 9
\* a dataset has 0..MaxRows rows and 0..MaxCols columns
MaxRows == 2
MaxCols == 2
\* the multi-call specification inserts at most MaxShapes shapes
MaxShapes == 3

(***************************************************************************)
(* Arithmetic and text helpers.                                            *)
(***************************************************************************)
Abs(x) == IF x < 0 THEN -x ELSE x

RECURSIVE Pow10(_)
Pow10(k) == IF k <= 0 THEN 1 ELSE 10 * Pow10(k - 1)

DigitChars == <<"0", "1", "2", "3", "4", "5", "6", "7", "8", "9">>

IsDigit(c) == \E i \in 1..10 : DigitChars[i] = c

DigitValue(c) == (CHOOSE i \in 1..10 : DigitChars[i] = c) - 1

\* the decimal digits of a natural number, most significant first
RECURSIVE Digits(_)
Digits(n) ==
    IF n < 10 THEN <<DigitChars[n + 1]>>
    ELSE Digits(n \div 10) \o <<DigitChars[(n % 10) + 1]>>

NumDigits(n) == Len(Digits(n))

RECURSIVE Zeros(_)
Zeros(k) == IF k <= 0 THEN <<>> ELSE <<"0">> \o Zeros(k - 1)

RECURSIVE StripZeros(_)
StripZeros(s) ==
    IF Len(s) > 0 /\ s[Len(s)] = "0" THEN StripZeros(SubSeq(s, 1, Len(s) - 1))
    ELSE s

\* the thousands grouping that format's ',' option applies to a digit string
RECURSIVE Group(_)
Group(ds) ==
    IF Len(ds) <= 3 THEN ds
    ELSE Group(SubSeq(ds, 1, Len(ds) - 3)) \o <<",">>
         \o SubSeq(ds, Len(ds) - 2, Len(ds))

EndsWith(s, c) == Len(s) > 0 /\ s[Len(s)] = c

\* n / unit rounded to the nearest integer, ties to the even one (n >= 0)
HalfEven(n, unit) ==
    LET q == n \div unit
        r == n % unit
    IN  IF 2 * r < unit THEN q
        ELSE IF 2 * r > unit THEN q + 1
        ELSE IF q % 2 = 0 THEN q ELSE q + 1

(***************************************************************************)
(* Values.  type "int" is Python's int, "float" its float (h hundredths),  *)
(* "str" its str; "int64" is the numpy integer scalar that as_matrix()     *)
(* yields for an integer column: it formats like an int but its type is    *)
(* not one of six.integer_types.                                           *)
(***************************************************************************)
IntV(n) == [type |-> "int", n |-> n, h |-> 0, s |-> <<>>]
Int64V(n) == [type |-> "int64", n |-> n, h |-> 0, s |-> <<>>]
FloatV(h) == [type |-> "float", n |-> 0, h |-> h, s |-> <<>>]
StrV(s) == [type |-> "str", n |-> 0, h |-> 0, s |-> s]

IsIntLike(v) == v.type \in {"int", "int64"}

\* the value as a count of hundredths (numbers only)
Hundredths(v) == IF IsIntLike(v) THEN 100 * v.n ELSE v.h

IntStr(n) == IF n < 0 THEN <<"-">> \o Digits(-n) ELSE Digits(n)

\* repr of a float: the shortest decimal, with at least one fraction digit
FloatStr(h, grouped) ==
    LET a == Abs(h)
        ip == Digits(a \div 100)
        fr == StripZeros(<<DigitChars[((a % 100) \div 10) + 1],
                           DigitChars[(a % 10) + 1]>>)
    IN  (IF h < 0 THEN <<"-">> ELSE <<>>)
        \o (IF grouped THEN Group(ip) ELSE ip)
        \o <<".">> \o (IF fr = <<>> THEN <<"0">> ELSE fr)

\* str(value), which is also format(value, '')
PyStr(v) ==
    CASE IsIntLike(v) -> IntStr(v.n)
      [] v.type = "float" -> FloatStr(v.h, FALSE)
      [] OTHER -> v.s

(***************************************************************************)
(* format(value, spec): Python's format specification mini-language, for   *)
(* the specifications written over the characters the model uses:          *)
(*     [","] ["." digits] [type]                                           *)
(* with the type codes d, f, G and s.  R and Q stand for characters that   *)
(* are no type code.  A result with ok = FALSE is a raised ValueError.     *)
(***************************************************************************)
RECURSIVE DigitRun(_)
DigitRun(s) ==
    IF Len(s) > 0 /\ IsDigit(s[1]) THEN <<s[1]>> \o DigitRun(Tail(s)) ELSE <<>>

RECURSIVE DigitsValue(_)
DigitsValue(ds) ==
    IF ds = <<>> THEN 0
    ELSE 10 * DigitsValue(SubSeq(ds, 1, Len(ds) - 1)) + DigitValue(ds[Len(ds)])

ParseSpec(spec) ==
    LET comma == Len(spec) > 0 /\ spec[1] = ","
        r1 == IF comma THEN Tail(spec) ELSE spec
        dot == Len(r1) > 0 /\ r1[1] = "."
        run == IF dot THEN DigitRun(Tail(r1)) ELSE <<>>
        r2 == IF dot THEN SubSeq(r1, 2 + Len(run), Len(r1)) ELSE r1
    IN  [valid |-> (dot => run # <<>>) /\ Len(r2) <= 1,
         comma |-> comma,
         hasprec |-> dot,
         prec |-> DigitsValue(run),
         type |-> IF Len(r2) = 1 THEN r2[1] ELSE ""]

Sign(h) == IF h < 0 THEN <<"-">> ELSE <<>>

Grouped(ds, comma) == IF comma THEN Group(ds) ELSE ds

\* the digits of n, padded on the left with zeros to k digits
PadLeft(n, k) == Zeros(k - NumDigits(n)) \o Digits(n)

\* type f: fixed point with p fraction digits, of h hundredths
Fixed(h, p, comma) ==
    LET a == Abs(h)
        q == IF p >= 2 THEN a ELSE HalfEven(a, Pow10(2 - p))
        k == IF p >= 2 THEN 2 ELSE p
        ip == q \div Pow10(k)
        fr == IF k = 0 THEN <<>> ELSE PadLeft(q % Pow10(k), k) \o Zeros(p - 2)
    IN  Sign(h) \o Grouped(Digits(ip), comma)
        \o (IF p > 0 THEN <<".">> \o fr ELSE <<>>)

\* type G (upper) and the float format with a precision and no type code
\* (lower case, and ".0" added to a result without a fraction): p0
\* significant digits of h hundredths, fixed or scientific by the exponent
\* (the no-type format turns scientific one digit earlier)
General(h, p0, comma, upper, adddot) ==
    LET p == IF p0 = 0 THEN 1 ELSE p0
        a == Abs(h)
        D == NumDigits(a)
        q0 == IF D > p THEN HalfEven(a, Pow10(D - p)) ELSE a
        carry == D > p /\ q0 = Pow10(p)
        q == IF carry THEN Pow10(p - 1) ELSE q0
        e == IF h = 0 THEN 0 ELSE IF carry THEN D - 2 ELSE D - 3
        s == IF h = 0 THEN <<"0">> ELSE StripZeros(Digits(q))
        padded == s \o Zeros(e + 1 - Len(s))
        fr == SubSeq(padded, e + 2, Len(padded))
    IN  IF e >= -4 /\ e < (IF adddot THEN p - 1 ELSE p) THEN
            IF e >= 0 THEN
                Sign(h) \o Grouped(SubSeq(padded, 1, e + 1), comma)
                \o (IF fr # <<>> THEN <<".">> \o fr
                    ELSE IF adddot THEN <<".", "0">> ELSE <<>>)
            ELSE Sign(h) \o <<"0", ".">> \o Zeros(-e - 1) \o s
        ELSE
            Sign(h) \o <<s[1]>>
            \o (IF Len(s) > 1 THEN <<".">> \o Tail(s) ELSE <<>>)
            \o <<IF upper THEN "E" ELSE "e", IF e < 0 THEN "-" ELSE "+">>
            \o PadLeft(Abs(e), 2)

Failed == [ok |-> FALSE, text |-> <<>>]

Done(text) == [ok |-> TRUE, text |-> text]

Format(v, spec) ==
    LET f == ParseSpec(spec)
        p == IF f.hasprec THEN f.prec ELSE 6
    IN  IF ~f.valid THEN Failed
        ELSE IF IsIntLike(v) THEN
            CASE f.type \in {"", "d"} ->
                    IF f.hasprec THEN Failed
                    ELSE Done(Sign(v.n) \o Grouped(Digits(Abs(v.n)), f.comma))
              [] f.type = "f" -> Done(Fixed(100 * v.n, p, f.comma))
              [] f.type = "G" ->
                    Done(General(100 * v.n, p, f.comma, TRUE, FALSE))
              [] OTHER -> Failed
        ELSE IF v.type = "float" THEN
            CASE f.type = "" ->
                    IF f.hasprec
                    THEN Done(General(v.h, p, f.comma, FALSE, TRUE))
                    ELSE Done(FloatStr(v.h, f.comma))
              [] f.type = "f" -> Done(Fixed(v.h, p, f.comma))
              [] f.type = "G" -> Done(General(v.h, p, f.comma, TRUE, FALSE))
              [] OTHER -> Failed
        ELSE
            IF f.type \in {"", "s"} /\ ~f.comma
            THEN Done(IF f.hasprec /\ f.prec < Len(v.s)
                      THEN SubSeq(v.s, 1, f.prec) ELSE v.s)
            ELSE Failed

(***************************************************************************)
(* round_to_n and _do_formatting.                                          *)
(***************************************************************************)
\* Python 3's round(x, ndigits) of an int: x itself for ndigits >= 0, else
\* the nearest multiple of 10^-ndigits, ties to the even multiple
PyRound(x, ndigits) ==
    IF ndigits >= 0 THEN x
    ELSE HalfEven(Abs(x), Pow10(-ndigits)) * Pow10(-ndigits)
         * (IF x < 0 THEN -1 ELSE 1)

\* int(floor(log10(abs(x)))) of a nonzero integer
FloorLog10(x) == NumDigits(Abs(x)) - 1

Raised(err) == [raised |-> err, value |-> 0]

Returned(x) == [raised |-> "none", value |-> x]

\* a slip in the digit position: n in place of n - 1
round_to_n_shifted(x, n) ==
    IF x = 0 THEN Raised("ValueError")
    ELSE Returned(PyRound(x, -FloorLog10(x) + n))

\* log10(0) raises ValueError: math domain error
round_to_n(x, n) ==
    IF x = 0 THEN Raised("ValueError")
    ELSE Returned(PyRound(x, -FloorLog10(x) + (n - 1)))

\* a slip in the defaults: plain decimal for an integer
DefaultFormatPlain(value) ==
    CASE value.type = "int" -> <<"d">>
      [] value.type = "float" -> <<"f">>
      [] value.type = "str" -> <<"s">>
      [] OTHER -> <<>>

\* the branch for an empty format_str
DefaultFormat(value) ==
    CASE value.type = "int" -> <<",">>
      [] value.type = "float" -> <<"f">>
      [] value.type = "str" -> <<"s">>
      [] OTHER -> <<>>

\* a slip in the marker test: G appended whatever the ending
AppendGAlways(format_str) == format_str \o <<"G">>

\* if not format_str.endswith('G'): format_str = format_str + "G"
AppendG(format_str) ==
    IF EndsWith(format_str, "G") THEN format_str ELSE format_str \o <<"G">>

\* the integer rounding case of a format_str that starts with '.'
IsRoundCase(value, format_str) ==
    /\ Len(format_str) > 0 /\ format_str[1] = "."
    /\ EndsWith(format_str, "R")
    /\ value.type = "int"

\* the value and the format_str that reach the try block, or the error
\* raised before it
Prepare(value, format_str) ==
    IF format_str = <<>> THEN
        [raised |-> "none", value |-> value,
         format_str |-> DefaultFormat(value)]
    ELSE IF format_str[1] = "." THEN
        IF IsRoundCase(value, format_str) THEN
            IF ~IsDigit(format_str[2]) THEN
                \* int(format_str[1]) of a character that is no digit
                [raised |-> "ValueError", value |-> value,
                 format_str |-> format_str]
            ELSE
                LET r == round_to_n(value.n, DigitValue(format_str[2]))
                IN  IF r.raised # "none" THEN
                        [raised |-> r.raised, value |-> value,
                         format_str |-> format_str]
                    ELSE
                        [raised |-> "none", value |-> IntV(r.value),
                         format_str |-> AppendG(<<",">>)]
        ELSE
            [raised |-> "none", value |-> value,
             format_str |-> AppendG(format_str)]
    ELSE
        [raised |-> "none", value |-> value, format_str |-> format_str]

\* raised: the error that leaves the function, or "none"; applied: the
\* format_str handed to format() in the try block; fell_back: the except
\* branch ran; result: the returned text
_do_formatting(value, format_str) ==
    LET p == Prepare(value, format_str)
        f == Format(p.value, p.format_str)
    IN  IF p.raised # "none" THEN
            [raised |-> p.raised, applied |-> <<>>, formatted |-> value,
             fell_back |-> FALSE, result |-> <<>>]
        ELSE
            [raised |-> "none", applied |-> p.format_str,
             formatted |-> p.value, fell_back |-> ~f.ok,
             result |-> IF f.ok THEN f.text ELSE PyStr(p.value)]

(***************************************************************************)
(* The formatter's inputs.                                                 *)
(***************************************************************************)
BigInts == {99, 100, 999, 1000, 1234, -1234, 12500, 13500, 99950, 999999,
            1000000, 1234567, -1234567}

BigFloats == {12325, 123450, -123450, 99999975, 123456725}

Texts == {<<>>, <<"a", "b", "c">>, <<"N", "e", "t">>}

Ints == (-MaxSmall..MaxSmall) \cup BigInts

Values ==
    {IntV(n) : n \in Ints}
    \cup {FloatV(25 * k) : k \in -MaxQuarters..MaxQuarters}
    \cup {FloatV(h) : h \in BigFloats}
    \cup {StrV(s) : s \in Texts}

FormatSpecs ==
    { <<>>, <<",">>, <<"d">>, <<"f">>, <<"s">>, <<"G">>, <<",", "G">>,
      <<"Q">>, <<",", ".", "1">>,
      <<".">>, <<".", "R">>, <<".", "G">>, <<".", "G", "G">>,
      <<".", "2">>, <<".", "2", "G">>, <<".", "3">>, <<".", "0">>,
      <<".", "2", "f">>, <<".", "2", "s">>, <<".", "Q">>,
      <<".", "0", "R">>, <<".", "1", "R">>, <<".", "2", "R">>,
      <<".", "3", "R">>, <<".", "9", "R">>, <<".", "R", "R">> }

(***************************************************************************)
(* The formatter as a state machine: the initial state holds the           *)
(* arguments of one call, the step runs it.                                *)
(***************************************************************************)
NoCall == [op |-> "none", done |-> FALSE]

InitFormat ==
    /\ fcall \in
          {[op |-> "_do_formatting", done |-> FALSE, value |-> value,
            format_str |-> format_str] :
               value \in Values, format_str \in FormatSpecs}
          \cup {[op |-> "round_to_n", done |-> FALSE, x |-> x, n |-> n] :
                   x \in -MaxRound..MaxRound, n \in 1..MaxSig}
    /\ slide = <<>>
    /\ call = NoCall

DoFormatting ==
    /\ fcall.op = "_do_formatting" /\ ~fcall.done
    /\ fcall' = [op |-> "_do_formatting", done |-> TRUE,
                 value |-> fcall.value, format_str |-> fcall.format_str,
                 out |-> _do_formatting(fcall.value, fcall.format_str)]
    /\ UNCHANGED <<slide, call>>

RoundToN ==
    /\ fcall.op = "round_to_n" /\ ~fcall.done
    /\ fcall' = [op |-> "round_to_n", done |-> TRUE, x |-> fcall.x,
                 n |-> fcall.n, out |-> round_to_n(fcall.x, fcall.n)]
    /\ UNCHANGED <<slide, call>>

NextFormat == DoFormatting \/ RoundToN

SpecFormat == InitFormat /\ [][NextFormat]_vars

Formatted == fcall.op = "_do_formatting" /\ fcall.done

Rounded == fcall.op = "round_to_n" /\ fcall.done

(***************************************************************************)
(* C1: _do_formatting never raises to its caller: for every value and      *)
(* every format specification the call returns a string, and when the      *)
(* final format step fails the returned string is the plain string         *)
(* conversion of the value.                                                *)
(***************************************************************************)
C1_NeverRaises ==
    Formatted =>
        /\ fcall.out.raised = "none"
        /\ fcall.out.fell_back => fcall.out.result = PyStr(fcall.value)

C4_RoundAppliesComma ==
    (Formatted /\ IsRoundCase(fcall.value, fcall.format_str)
               /\ fcall.out.raised = "none") =>
        /\ fcall.out.formatted =
              IntV(round_to_n(fcall.value.n,
                              DigitValue(fcall.format_str[2])).value)
        /\ fcall.out.applied = <<",">>

C9_SignificantDigits ==
    (Rounded /\ fcall.x # 0) =>
        LET x == fcall.x
            n == fcall.n
            d == NumDigits(Abs(x))
            r == fcall.out.value
        IN  /\ fcall.out.raised = "none"
            /\ n < d =>
                /\ r % Pow10(d - n) = 0
                /\ 2 * Abs(r - x) <= Pow10(d - n)
            /\ n >= d => r = x
            /\ (x = 1234 /\ n = 2) => r = 1200

C9_Witness ==
    /\ Rounded
    /\ fcall.x = 1234
    /\ fcall.n = 2
    /\ fcall.out = Returned(1200)

(***************************************************************************)
(* The document model that df_to_table and add_title write to: a slide is  *)
(* the sequence of its shapes; a table shape is a grid of cells, addressed *)
(* from 0 as in the source, and its columns.                               *)
(***************************************************************************)
None == [some |-> FALSE, v |-> <<>>]

Some(x) == [some |-> TRUE, v |-> x]

Cm(n) == [unit |-> "cm", n |-> n]

Inches(n) == [unit |-> "in", n |-> n]

Pt(n) == [unit |-> "pt", n |-> n]

Auto == [unit |-> "auto", n |-> 0]

\* a position parameter: None, an int, or a Length of the library
NoParam == [kind |-> "none", len |-> Auto]

IntParam(n) == [kind |-> "int", len |-> [unit |-> "int", n |-> n]]

LengthParam(len) == [kind |-> "length", len |-> len]

process_position_parameter(param) ==
    IF param.kind = "none" THEN Cm(4)
    ELSE IF param.kind = "int" THEN Cm(param.len.n)
    ELSE param.len

EmptyCell ==
    [text |-> <<>>, writes |-> 0, auto_size |-> "unset", bold |-> "unset",
     size |-> Auto, font |-> "unset", color |-> "unset", align |-> "unset",
     fill |-> "unset"]

CellsOf(rows, cols) == (0..(rows - 1)) \X (0..(cols - 1))

\* slide.shapes.add_table(rows, cols, left, top, width, height)
NewTable(rows, cols, left, top, width, height) ==
    [kind |-> "table", rows |-> rows, cols |-> cols,
     cells |-> [rc \in CellsOf(rows, cols) |-> EmptyCell],
     columns |-> [i \in 0..(cols - 1) |-> [width |-> Auto, height |-> Auto]],
     name |-> None, left |-> left, top |-> top, width |-> width,
     height |-> height, paragraphs |-> <<>>]

\* The library is not part of the repository.  For a table without rows or
\* without columns the model admits both of its possible answers: an empty
\* grid, or an error raised by add_table.
AddTableOutcomes(rows, cols) ==
    IF rows = 0 \/ cols = 0 THEN {"grid", "raises"} ELSE {"grid"}

\* the fields of upd laid over those of cell; setting the text counts as a write
Merge(cell, upd) ==
    [f \in DOMAIN cell |->
        IF f = "writes" /\ "text" \in DOMAIN upd THEN cell.writes + 1
        ELSE IF f \in DOMAIN upd THEN upd[f]
        ELSE cell[f]]

\* one statement block on shp.table.cell(r, c): err is an error raised
\* before the cell is reached; a cell outside the grid raises IndexError
\* (the text after "IndexError" tells which subscript raised it)
ApplyOp(st, op) ==
    IF st.raised # "none" THEN st
    ELSE IF op.err # "none" THEN [st EXCEPT !.raised = op.err]
    ELSE IF ~(op.r < st.shape.rows /\ op.c < st.shape.cols)
    THEN [st EXCEPT !.raised = "IndexError: cell"]
    ELSE [st EXCEPT !.shape.cells[<<op.r, op.c>>] = Merge(@, op.upd)]

RECURSIVE RunFrom(_, _, _)
RunFrom(st, ops, k) ==
    IF k > Len(ops) \/ st.raised # "none" THEN st
    ELSE RunFrom(ApplyOp(st, ops[k]), ops, k + 1)

\* the statements in order, up to the first that raises
RunOps(st, ops) == RunFrom(st, ops, 1)

CellOp(r, c, upd) == [r |-> r, c |-> c, err |-> "none", upd |-> upd]

FailOp(err) == [r |-> 0, c |-> 0, err |-> err, upd |-> <<>>]

(***************************************************************************)
(* The dataset.  kind "int64": a frame of one integer dtype, whose cells   *)
(* as_matrix() yields as numpy integers; kind "object": a frame of Python  *)
(* objects, text in its first column and ints in the others.  Its columns  *)
(* and its index are named by text.                                        *)
(***************************************************************************)
Pool == <<1234, 15000, -1234567, 7, 0, 999>>

PoolValue(row, col) == Pool[((row * 3 + col) % Len(Pool)) + 1]

\* m[row, col]
FrameValue(df, row, col) ==
    IF df.kind = "int64" THEN Int64V(PoolValue(row, col))
    ELSE IF col = 0 THEN StrV(<<"N", "e", "t">>)
    ELSE IntV(PoolValue(row, col))

\* list(df.columns), list(df.index)
Columns(df) == [i \in 1..df.cols |-> <<"c", DigitChars[i]>>]

Index(df) == [i \in 1..df.rows |-> <<"r", DigitChars[i]>>]

(***************************************************************************)
(* df_to_table.                                                            *)
(***************************************************************************)
\* text = _do_formatting(val, format_str), or the error it raised
Formatter(f) == [err |-> f.raised, text |-> f.result]

\* a slip: the formatter's default applied when col_formatters is None
CellTextDefaultFormat(a, row, col) ==
    IF ~a.col_formatters.some
    THEN Formatter(_do_formatting(FrameValue(a.df, row, col), <<>>))
    ELSE IF col >= Len(a.col_formatters.v)
    THEN [err |-> "IndexError: col_formatters", text |-> <<>>]
    ELSE Formatter(_do_formatting(FrameValue(a.df, row, col),
                                  a.col_formatters.v[col + 1]))

\* the text of the data cell (row, col), or the error raised computing it
CellText(a, row, col) ==
    IF ~a.col_formatters.some
    THEN [err |-> "none", text |-> PyStr(FrameValue(a.df, row, col))]
    ELSE IF col >= Len(a.col_formatters.v)
    THEN [err |-> "IndexError: col_formatters", text |-> <<>>]
    ELSE Formatter(_do_formatting(FrameValue(a.df, row, col),
                                  a.col_formatters.v[col + 1]))

\* the loops over the data: one write per (row, col), row by row, one grid
\* line after the labels
WriteText(a, row, col, t) ==
    IF t.err # "none" THEN FailOp(t.err)
    ELSE IF a.transposed THEN CellOp(row, col + 1, [text |-> t.text])
    ELSE CellOp(row + 1, col, [text |-> t.text])

DataCell(a, row, col) == WriteText(a, row, col, CellText(a, row, col))

DataOps(a) ==
    [k \in 1..(a.df.rows * a.df.cols) |->
        DataCell(a, (k - 1) \div a.df.cols, (k - 1) % a.df.cols)]

\* the labels written: rownames down the first column of a transposed
\* table, colnames along the first row otherwise
Labels(a) ==
    IF a.transposed
    THEN (IF a.rownames.some THEN a.rownames.v ELSE Index(a.df))
    ELSE (IF a.colnames.some THEN a.colnames.v ELSE Columns(a.df))

LabelOps(a) ==
    LET names == Labels(a)
    IN  [k \in 1..Len(names) |->
            IF a.transposed THEN CellOp(k - 1, 0, [text |-> names[k]])
            ELSE CellOp(0, k - 1, [text |-> names[k]])]

BaseStyle(a) ==
    [auto_size |-> "SHAPE_TO_FIT_TEXT", bold |-> "False",
     size |-> Pt(a.font_size), font |-> "Calibri", color |-> "000000",
     align |-> "CENTER"]

\* the cell formatting of a table whose white_backgr is False
StyleOps(a) ==
    LET rows == a.df.rows
        cols == a.df.cols
    IN  IF a.white_backgr THEN <<>>
        ELSE IF a.transposed THEN
            [k \in 1..(rows * (cols + 1)) |->
                CellOp((k - 1) \div (cols + 1), (k - 1) % (cols + 1),
                       BaseStyle(a))]
            \o [i \in 1..rows |->
                CellOp(i - 1, 0,
                       [fill |-> "4F81BD", bold |-> "True",
                        size |-> Pt(a.font_size), font |-> "Calibri",
                        color |-> "000000", align |-> "LEFT"])]
            \o [j \in 1..cols |-> CellOp(0, j, [fill |-> "E9EDF4"])]
        ELSE
            [k \in 1..((rows + 1) * cols) |->
                CellOp((k - 1) \div cols, (k - 1) % cols, BaseStyle(a))]
            \o [j \in 1..cols |->
                CellOp(0, j - 1,
                       [bold |-> "True", size |-> Pt(a.font_size),
                        font |-> "Calibri", color |-> "000000",
                        align |-> "CENTER"])]

SetName(st, a) ==
    IF st.raised # "none" \/ ~a.name.some THEN st
    ELSE [st EXCEPT !.shape.name = a.name]

\* a slip: a list shorter than the table's columns is rejected too
SetColumnsStrict(st, attr, on, list) ==
    IF st.raised # "none" \/ ~on THEN st
    ELSE [shape |->
             [st.shape EXCEPT !.columns =
                 [i \in DOMAIN st.shape.columns |->
                     IF i < Len(list)
                     THEN [st.shape.columns[i] EXCEPT ![attr] = list[i + 1]]
                     ELSE st.shape.columns[i]]],
          raised |-> IF Len(list) # st.shape.cols
                     THEN "IndexError: columns" ELSE "none"]

\* for i in range(len(list)): shp.table.columns[i].<attr> = list[i]
\* columns[i] of a column the table does not have raises IndexError
SetColumns(st, attr, on, list) ==
    IF st.raised # "none" \/ ~on THEN st
    ELSE [shape |->
             [st.shape EXCEPT !.columns =
                 [i \in DOMAIN st.shape.columns |->
                     IF i < Len(list)
                     THEN [st.shape.columns[i] EXCEPT ![attr] = list[i + 1]]
                     ELSE st.shape.columns[i]]],
          raised |-> IF Len(list) > st.shape.cols
                     THEN "IndexError: columns" ELSE "none"]

TableRows(a) == IF a.transposed THEN a.df.rows ELSE a.df.rows + 1

TableCols(a) == IF a.transposed THEN a.df.cols + 1 ELSE a.df.cols

\* the shape after every statement that follows add_table, and the error
\* that ended the call if one did
FillTable(a) ==
    LET st0 == [shape |-> NewTable(TableRows(a), TableCols(a),
                                   process_position_parameter(a.left),
                                   process_position_parameter(a.top),
                                   process_position_parameter(a.width),
                                   process_position_parameter(a.height)),
                raised |-> "none"]
        st1 == RunOps(st0, LabelOps(a))
        st2 == RunOps(st1, DataOps(a))
        st3 == SetName(st2, a)
        st4 == RunOps(st3, StyleOps(a))
        st5 == SetColumns(st4, "width", a.set_col_width, a.col_width)
    IN  SetColumns(st5, "height", a.set_col_height, a.col_height)

\* df_to_table on the slide whose shapes are `shapes`; added is the
\* answer of add_table.  returned: the position in slide.shapes of the
\* shape handed back, 0 when the call raised
Finish(shapes, st) ==
    [shapes |-> Append(shapes, st.shape), raised |-> st.raised,
     returned |-> IF st.raised = "none" THEN Len(shapes) + 1 ELSE 0]

df_to_table(shapes, a, added) ==
    IF added = "raises"
    THEN [shapes |-> shapes, raised |-> "LibraryError", returned |-> 0]
    ELSE Finish(shapes, FillTable(a))

(***************************************************************************)
(* add_title: a textbox with the title in a paragraph added to its text    *)
(* frame.  The function has no return statement: it returns None.          *)
(***************************************************************************)
EmptyParagraph ==
    [text |-> <<>>, bold |-> "unset", underline |-> "unset",
     italics |-> "unset", size |-> Auto, align |-> "unset"]

TitleShape(t) ==
    [kind |-> "textbox", rows |-> 0, cols |-> 0,
     cells |-> [rc \in CellsOf(0, 0) |-> EmptyCell],
     columns |-> [i \in 0..(-1) |-> [width |-> Auto, height |-> Auto]],
     name |-> None, left |-> t.left, top |-> t.top, width |-> t.width,
     height |-> t.height,
     paragraphs |->
        <<EmptyParagraph,
          [text |-> t.title, bold |-> t.bold, underline |-> t.underline,
           italics |-> t.italics, size |-> Pt(t.font_size),
           align |-> "CENTER"]>>]

\* a slip: the textbox handed back to the caller
add_title_returning(shapes, t) ==
    [shapes |-> Append(shapes, TitleShape(t)), raised |-> "none",
     returned |-> Len(shapes) + 1]

add_title(shapes, t) ==
    [shapes |-> Append(shapes, TitleShape(t)), raised |-> "none",
     returned |-> 0]

(***************************************************************************)
(* The arguments of df_to_table.                                           *)
(***************************************************************************)
Names(prefix, n) == [i \in 1..n |-> <<prefix, DigitChars[i]>>]

\* a names argument: absent, of the default length n, one shorter, one longer
LabelKinds == {"none", "exact", "short", "long"}

NamesArg(prefix, n, kind) ==
    CASE kind = "none" -> None
      [] kind = "exact" -> Some(Names(prefix, n))
      [] kind = "short" -> Some(Names(prefix, IF n > 0 THEN n - 1 ELSE 0))
      [] OTHER -> Some(Names(prefix, n + 1))

Lengths(n) == [i \in 1..n |-> Inches(i)]

\* col_formatters with rounding: neither, rounding alone, the empty
\* specification for every column, the rounding specification with rounding
Formatting(cols) ==
    { [col_formatters |-> None, rounding |-> None],
      [col_formatters |-> None, rounding |-> Some([i \in 1..cols |-> 2])],
      [col_formatters |-> Some([i \in 1..cols |-> <<>>]), rounding |-> None],
      [col_formatters |-> Some([i \in 1..cols |-> <<".", "2", "R">>]),
       rounding |-> Some([i \in 1..cols |-> 2])] }

\* the frame with the arguments no branch of the function depends on: the
\* defaults, or a name, a font size and a position of each kind
Variants ==
    { [kind |-> "int64", name |-> None, font_size |-> 14, left |-> NoParam,
       top |-> NoParam, width |-> NoParam, height |-> NoParam],
      [kind |-> "object", name |-> Some(<<"t", "b", "l">>), font_size |-> 11,
       left |-> IntParam(1), top |-> IntParam(2),
       width |-> LengthParam(Inches(3)), height |-> NoParam] }

Args(rows, cols, v, f, colnames, rownames, white_backgr, transposed, set_col_width, col_width, set_col_height, col_height) ==
    [df |-> [rows |-> rows, cols |-> cols, kind |-> v.kind],
     left |-> v.left, top |-> v.top, width |-> v.width, height |-> v.height,
     colnames |-> colnames, rownames |-> rownames,
     col_formatters |-> f.col_formatters, rounding |-> f.rounding,
     name |-> v.name, white_backgr |-> white_backgr,
     transposed |-> transposed, font_size |-> v.font_size,
     set_col_width |-> set_col_width, col_width |-> col_width,
     set_col_height |-> set_col_height, col_height |-> col_height]

\* the lengths of a column list: one fewer than the table's columns, as
\* many, one more
ListLengths(cols, transposed) ==
    LET n == IF transposed THEN cols + 1 ELSE cols
    IN  {k \in {n - 1, n, n + 1} : k >= 0}

(***************************************************************************)
(* One call of df_to_table on an empty slide: the initial state holds the  *)
(* arguments, the step runs the call.  colnames and rownames are of one    *)
(* kind, and one list length serves col_width and col_height.              *)
(***************************************************************************)
InitTable ==
    /\ fcall = NoCall
    /\ slide = <<>>
    /\ \E rows \in 0..MaxRows, cols \in 0..MaxCols, v \in Variants,
          kind \in LabelKinds, wb \in BOOLEAN, tr \in BOOLEAN,
          sw \in BOOLEAN, sh \in BOOLEAN :
          \E f \in Formatting(cols), n \in ListLengths(cols, tr) :
             call = [op |-> "df_to_table", done |-> FALSE,
                     args |-> Args(rows, cols, v, f,
                                   NamesArg("C", cols, kind),
                                   NamesArg("R", rows, kind), wb, tr, sw,
                                   Lengths(n), sh, Lengths(n))]

\* the calls so far in which add_table or add_textbox added a shape
Inserted == IF call.done THEN call.inserted ELSE 0

\* the effect of one call of df_to_table with arguments a
Called(op, a, added, out) ==
    /\ slide' = out.shapes
    /\ call' = [op |-> op, done |-> TRUE, args |-> a, before |-> slide,
                added |-> added,
                inserted |-> Inserted + (IF added = "raises" THEN 0 ELSE 1),
                raised |-> out.raised, returned |-> out.returned]

RunDfToTable(a) ==
    \E added \in AddTableOutcomes(TableRows(a), TableCols(a)) :
       Called("df_to_table", a, added, df_to_table(slide, a, added))

TableCall ==
    /\ call.op = "df_to_table" /\ ~call.done
    /\ RunDfToTable(call.args)
    /\ UNCHANGED fcall

NextTable == TableCall

SpecTable == InitTable /\ [][NextTable]_vars

(***************************************************************************)
(* The slide as a state machine: calls of df_to_table and add_title, one   *)
(* after the other, on one slide.                                          *)
(***************************************************************************)
Init ==
    /\ fcall = NoCall
    /\ slide = <<>>
    /\ call = NoCall

DefaultVariant == CHOOSE v \in Variants : v.kind = "int64"

NoFormatting == [col_formatters |-> None, rounding |-> None]

DfToTable ==
    /\ Len(slide) < MaxShapes
    /\ \E rows \in 0..1, cols \in 0..1, tr \in BOOLEAN,
          kind \in {"none", "long"} :
          RunDfToTable(Args(rows, cols, DefaultVariant, NoFormatting,
                            NamesArg("C", cols, kind),
                            NamesArg("R", rows, kind), FALSE, tr, FALSE,
                            <<>>, FALSE, <<>>))
    /\ UNCHANGED fcall

AddTitle ==
    /\ Len(slide) < MaxShapes
    /\ \E title \in {<<"N", "e", "t">>, <<>>}, bold \in BOOLEAN :
          LET t == [left |-> Inches(1), top |-> Inches(1),
                    width |-> Inches(2), height |-> Inches(1),
                    title |-> title, bold |-> bold,
                    font_size |-> IF bold THEN 16 ELSE 11,
                    underline |-> TRUE, italics |-> FALSE]
          IN  Called("add_title", t, "textbox", add_title(slide, t))
    /\ UNCHANGED fcall

Next == DfToTable \/ AddTitle

Spec == Init /\ [][Next]_vars

(***************************************************************************)
(* What the claims about df_to_table speak of.                             *)
(***************************************************************************)
TableDone == call.op = "df_to_table" /\ call.done /\ call.added = "grid"

\* the table the last call added
Shp == slide[Len(slide)]

DataCells(a) == (0..(a.df.rows - 1)) \X (0..(a.df.cols - 1))

\* the grid cell of the data cell (row, col)
Place(a, rc) ==
    IF a.transposed THEN <<rc[1], rc[2] + 1>> ELSE <<rc[1] + 1, rc[2]>>

\* the grid cell of the k-th label, k from 1
LabelPlace(a, k) == IF a.transposed THEN <<k - 1, 0>> ELSE <<0, k - 1>>

\* the names argument that the orientation uses
NamesUsed(a) == IF a.transposed THEN a.rownames ELSE a.colnames

DefaultLength(a) == IF a.transposed THEN a.df.rows ELSE a.df.cols

IntCells(a) == {rc \in DataCells(a) : IsIntLike(FrameValue(a.df, rc[1], rc[2]))}

(***************************************************************************)
(* C3, as stated: with col_formatters left at None, every data cell of a   *)
(* table of integers holds the integer's thousands-separated string, and   *)
(* the label cells hold the supplied names.                                *)
(***************************************************************************)
C3_ThousandsSeparated ==
    (TableDone /\ call.raised = "none" /\ ~call.args.col_formatters.some) =>
        LET a == call.args
        IN  /\ \A rc \in IntCells(a) :
                  LET n == FrameValue(a.df, rc[1], rc[2]).n
                  IN  Shp.cells[Place(a, rc)].text
                         = Sign(n) \o Group(Digits(Abs(n)))
            /\ \A k \in 1..Len(Labels(a)) :
                  Shp.cells[LabelPlace(a, k)].text = Labels(a)[k]

(***************************************************************************)
(* C3, amended: with col_formatters left at None, every data cell of a     *)
(* call that completes holds the plain string conversion of its value (an  *)
(* integer's decimal digits without separators), and the label cells hold  *)
(* the supplied names.                                                     *)
(***************************************************************************)
C3_PlainStrings ==
    (TableDone /\ call.raised = "none" /\ ~call.args.col_formatters.some) =>
        LET a == call.args
        IN  /\ \A rc \in DataCells(a) :
                  LET v == FrameValue(a.df, rc[1], rc[2])
                  IN  Shp.cells[Place(a, rc)].text
                         = IF IsIntLike(v) THEN IntStr(v.n) ELSE v.s
            /\ \A k \in 1..Len(Labels(a)) :
                  Shp.cells[LabelPlace(a, k)].text = Labels(a)[k]
            /\ NamesUsed(a).some => Labels(a) = NamesUsed(a).v

C3_Witness ==
    /\ TableDone
    /\ call.raised = "none"
    /\ ~call.args.col_formatters.some
    /\ call.args.df = [rows |-> 2, cols |-> 2, kind |-> "int64"]
    /\ ~call.args.transposed
    /\ call.args.colnames = Some(Names("C", 2))
    /\ Shp.cells[<<0, 1>>].text = <<"C", "1">>
    /\ Shp.cells[<<1, 0>>].text = <<"1", "2", "3", "4">>
    /\ Shp.cells[<<1, 1>>].text = <<"1", "5", "0", "0", "0">>

(***************************************************************************)
(* C7: the rounding argument takes effect: with rounding a list holding k  *)
(* for an integer column, every value of the column is rounded with        *)
(* round(value, -k) before its text is written into the cell.              *)
(***************************************************************************)
C7_RoundingApplied ==
    (TableDone /\ call.raised = "none" /\ call.args.rounding.some
               /\ ~call.args.col_formatters.some) =>
        LET a == call.args
        IN  \A rc \in IntCells(a) :
               Shp.cells[Place(a, rc)].text
                  = IntStr(PyRound(FrameValue(a.df, rc[1], rc[2]).n,
                                   -a.rounding.v[rc[2] + 1]))

(***************************************************************************)
(* C8: data is placed in order and never over the labels: for a dataset    *)
(* of R rows and C columns whose label list has the default length, the    *)
(* table has R+1 rows and C columns (R and C+1 when transposed), the       *)
(* labels fill the first row (the first column when transposed), cell      *)
(* (r+1, c) (cell (r, c+1) when transposed) holds the text of value        *)
(* (r, c), every cell is written at most once and no cell outside the grid *)
(* is addressed.  Stated for a table that has a row and a column.          *)
(***************************************************************************)
C8_Placement ==
    (TableDone /\ Len(Labels(call.args)) = DefaultLength(call.args)
               /\ TableRows(call.args) > 0 /\ TableCols(call.args) > 0) =>
        LET a == call.args
        IN  /\ Shp.rows = (IF a.transposed THEN a.df.rows ELSE a.df.rows + 1)
            /\ Shp.cols = (IF a.transposed THEN a.df.cols + 1 ELSE a.df.cols)
            /\ DOMAIN Shp.cells = CellsOf(Shp.rows, Shp.cols)
            /\ \A k \in 1..Len(Labels(a)) :
                  Shp.cells[LabelPlace(a, k)].text = Labels(a)[k]
            /\ \A rc \in DataCells(a) :
                  /\ Shp.cells[Place(a, rc)].writes = 1
                  /\ CellText(a, rc[1], rc[2]).err = "none" =>
                        Shp.cells[Place(a, rc)].text
                           = CellText(a, rc[1], rc[2]).text
            /\ \A rc \in DOMAIN Shp.cells : Shp.cells[rc].writes <= 1
            /\ call.raised # "IndexError: cell"

(***************************************************************************)
(* C10, as stated: with set_col_width True the width of column i is set to *)
(* col_width[i] for every i, and a col_width whose length differs from the *)
(* number of table columns makes the call fail.  Stated for the calls in   *)
(* which nothing raised before the column overrides.                       *)
(***************************************************************************)
C10_MismatchFails ==
    (TableDone /\ call.args.set_col_width
               /\ call.raised \in {"none", "IndexError: columns"}) =>
        /\ Len(call.args.col_width) # Shp.cols => call.raised # "none"
        /\ call.raised = "none" =>
              \A i \in 0..(Shp.cols - 1) :
                 Shp.columns[i].width = call.args.col_width[i + 1]

(***************************************************************************)
(* C10, amended: in a call that completes with set_col_width True the      *)
(* width of column i has been set to col_width[i] for every i below        *)
(* len(col_width), and the other columns keep their width; a col_width     *)
(* longer than the table's columns makes the call fail, a shorter one does *)
(* not; with set_col_width False no column width is changed.  Likewise     *)
(* for set_col_height and col_height.                                      *)
(***************************************************************************)
C10_ColumnOverrides ==
    TableDone =>
        LET a == call.args
            over(on, list, attr) ==
                /\ (on /\ call.raised = "none") =>
                      /\ Len(list) <= Shp.cols
                      /\ \A i \in 0..(Shp.cols - 1) :
                            Shp.columns[i][attr]
                               = IF i < Len(list) THEN list[i + 1] ELSE Auto
                /\ (on /\ Len(list) > Shp.cols) => call.raised # "none"
                /\ ~on => \A i \in 0..(Shp.cols - 1) :
                             Shp.columns[i][attr] = Auto
        IN  /\ over(a.set_col_width, a.col_width, "width")
            /\ over(a.set_col_height, a.col_height, "height")
            /\ call.raised = "IndexError: columns" =>
                  \/ a.set_col_width /\ Len(a.col_width) > Shp.cols
                  \/ a.set_col_height /\ Len(a.col_height) > Shp.cols

C10_Witness ==
    /\ TableDone
    /\ call.raised = "none"
    /\ call.args.set_col_width
    /\ Shp.cols = 2
    /\ call.args.col_width = <<Inches(1)>>
    /\ Shp.columns[0].width = Inches(1)
    /\ Shp.columns[1].width = Auto

(***************************************************************************)
(* C6, as stated: every insertion on a slide (df_to_table, add_title) that *)
(* completes adds exactly one new shape to the slide, after the shapes     *)
(* that were there, and returns a handle to the shape it added.            *)
(***************************************************************************)
C6_ReturnsHandle ==
    (call.done /\ call.raised = "none") =>
        /\ Len(slide) = Len(call.before) + 1
        /\ SubSeq(slide, 1, Len(call.before)) = call.before
        /\ call.returned = Len(slide)

(***************************************************************************)
(* C6, amended: every insertion in which the library adds the shape        *)
(* (add_table, add_textbox) adds exactly one new shape to the slide, also  *)
(* when df_to_table raises afterwards; df_to_table returns a handle to the *)
(* shape it added when it completes, add_title returns None; after k such  *)
(* calls the slide holds k shapes more, and the shapes added before are    *)
(* untouched.                                                              *)
(***************************************************************************)
C6_OneShapePerCall ==
    /\ Len(slide) = Inserted
    /\ call.done =>
        /\ call.added # "raises" =>
              /\ Len(slide) = Len(call.before) + 1
              /\ SubSeq(slide, 1, Len(call.before)) = call.before
              /\ Shp.kind = (IF call.op = "add_title" THEN "textbox"
                             ELSE "table")
        /\ call.added = "raises" => slide = call.before /\ call.returned = 0
        /\ (call.op = "df_to_table" /\ call.raised = "none") =>
              call.returned = Len(slide)
        /\ (call.op = "df_to_table" /\ call.raised # "none") =>
              call.returned = 0
        /\ call.op = "add_title" =>
              call.returned = 0 /\ call.raised = "none"

C6_Witness ==
    /\ call.done
    /\ call.op = "add_title"
    /\ call.returned = 0
    /\ Len(slide) = 2
    /\ slide[1].kind = "table"
    /\ slide[2].kind = "textbox"
    /\ slide[2].paragraphs[2].text = <<"N", "e", "t">>
====
